---- MODULE Spec2Model ----
(***************************************************************************)
(* TimelockWallet (src/src/lib.rs): a Stylus contract that holds the ETH   *)
(* of its account for one owner and releases it after unlock_timestamp.    *)
(* The host ledger runs one call at a time and reverts a call that returns *)
(* Err, so every action below is one whole call, committed or reverted.    *)
(***************************************************************************)
EXTENDS Integers, Sequences, FiniteSets, TLC

\* ---------------------------------------------------------------- bounds
\* Largest block timestamp (stands for 2^64 - 1, block::timestamp() is u64).
TimestampMax == 2
\* Largest U256 value (stands for 2^256 - 1); strictly above TimestampMax.
U256Max == TimestampMax + 1
\* Longest event log explored.
MaxLog == 2
\* ETH the contract's address may already hold when the code is deployed.
MaxPrefund == 1
\* ETH the funded account starts with.
InitialFunds == 1
\* Cap of the count of init calls that returned Ok.
MaxInits == 2

\* ------------------------------------------------------------- addresses
\* Address::ZERO, the sentinel of an uninitialised owner.
ZERO == "ZERO"
\* self.vm().contract_address()
Self == "Self"
\* Accounts that can send a call (msg_sender). No transaction is ever sent
\* by the zero address, and the contract makes no call to itself.
Senders == {"Alice", "Bob"}
\* Every address of the ledger.
Address == {ZERO, Self, "Carol"} \cup Senders
\* Recipients of a withdraw: the contract itself, a sender, a third party.
Recipients == {Self, "Alice", "Carol"}
\* Values of a U256 argument.
U256 == 0..U256Max

VARIABLES
    owner,              \* storage: address owner
    unlock_timestamp,   \* storage: uint256 unlock_timestamp
    timestamp,          \* block::timestamp() of the host
    bal,                \* ETH balance of every address on the host ledger
    log,                \* events emitted by committed calls, in order
    last,               \* the most recent step: the call and what it returned
    inits               \* number of init calls that returned Ok

vars == <<owner, unlock_timestamp, timestamp, bal, log, last, inits>>

\* ---------------------------------------------------------------- events
\* event Deposit(address indexed from, uint256 amount)
Deposit(from, amount) == [event |-> "Deposit", addr |-> from, amount |-> amount]
\* event Withdrawal(address indexed to, uint256 amount)
Withdrawal(to, amount) == [event |-> "Withdrawal", addr |-> to, amount |-> amount]

\* The record of a step: operation, msg_sender, address argument, U256
\* argument, msg_value, the returned tag ("Ok" or the error), and for the two
\* getters the returned address / number.
Call(op, sender, to, arg, value, result) ==
    [op |-> op, sender |-> sender, to |-> to, arg |-> arg, value |-> value,
     result |-> result, ret_addr |-> ZERO, ret_u256 |-> 0]

\* ------------------------------------------------------------------ host
\* The contract's ETH balance, self.vm().balance(self.vm().contract_address()).
balance == bal[Self]

\* The ledger after moving amount from src to dst (transfer_eth, msg_value).
Move(b, src, dst, amount) ==
    LET debited == [b EXCEPT ![src] = @ - amount]
    IN  [debited EXCEPT ![dst] = @ + amount]

\* A plain value transfer to the contract itself is always rejected: the
\* #[public] impl has no receive or fallback entry point. Any other recipient
\* may accept or reject (a recipient contract can revert).
CanAccept(to, accepted) == (to = Self) => ~accepted

\* --------------------------------------------------------- precondition checks
\* Variant: init never rejects.
init_check_always ==
    "Ok"

\* Variant: init tests the stored timestamp instead of the stored owner.
init_check_by_time ==
    IF unlock_timestamp # 0 THEN "AlreadyInitialized" ELSE "Ok"

\* init, lines 49-51
init_check ==
    IF owner # ZERO THEN "AlreadyInitialized" ELSE "Ok"

\* Variant: deposit without the initialisation check.
deposit_check_open ==
    "Ok"

\* deposit, lines 64-66
deposit_check ==
    IF owner = ZERO THEN "NotInitialized" ELSE "Ok"

\* Variant: withdraw without the time-lock check.
withdraw_check_nolock(sender) ==
    IF owner = ZERO THEN "NotInitialized"
    ELSE IF sender # owner THEN "NotOwner"
    ELSE IF balance = 0 THEN "ZeroBalance"
    ELSE "Ok"

\* Variant: withdraw without the owner check.
withdraw_check_anyone(sender) ==
    IF owner = ZERO THEN "NotInitialized"
    ELSE LET now == timestamp IN
         IF now < unlock_timestamp THEN "FundsLocked"
         ELSE IF balance = 0 THEN "ZeroBalance"
         ELSE "Ok"

\* Variant: withdraw with the time comparison the wrong way round.
withdraw_check_flipped(sender) ==
    IF owner = ZERO THEN "NotInitialized"
    ELSE IF sender # owner THEN "NotOwner"
    ELSE LET now == timestamp IN
         IF now > unlock_timestamp THEN "FundsLocked"
         ELSE IF balance = 0 THEN "ZeroBalance"
         ELSE "Ok"

\* Variant: withdraw reads the balance before the owner and time checks.
withdraw_check_balance_first(sender) ==
    IF owner = ZERO THEN "NotInitialized"
    ELSE IF balance = 0 THEN "ZeroBalance"
    ELSE IF sender # owner THEN "NotOwner"
    ELSE LET now == timestamp IN
         IF now < unlock_timestamp THEN "FundsLocked"
         ELSE "Ok"

\* Variant: withdraw narrows unlock_timestamp to the width of the block
\* timestamp before comparing.
withdraw_check_truncated(sender) ==
    IF owner = ZERO THEN "NotInitialized"
    ELSE IF sender # owner THEN "NotOwner"
    ELSE LET now == timestamp IN
         IF now < unlock_timestamp % (TimestampMax + 1) THEN "FundsLocked"
         ELSE IF balance = 0 THEN "ZeroBalance"
         ELSE "Ok"

\* withdraw, lines 79-97: the checks before the transfer, in order
withdraw_check(sender) ==
    IF owner = ZERO THEN "NotInitialized"
    ELSE IF sender # owner THEN "NotOwner"
    ELSE LET now == timestamp IN
         IF now < unlock_timestamp THEN "FundsLocked"
         ELSE IF balance = 0 THEN "ZeroBalance"
         ELSE "Ok"

\* Variant: extend_lock accepts new_unlock equal to the stored timestamp.
extend_lock_check_nonstrict(sender, new_unlock) ==
    IF owner = ZERO THEN "NotInitialized"
    ELSE IF sender # owner THEN "NotOwner"
    ELSE IF new_unlock < unlock_timestamp THEN "FundsLocked"
    ELSE "Ok"

\* Variant: extend_lock without the comparison.
extend_lock_check_nocmp(sender, new_unlock) ==
    IF owner = ZERO THEN "NotInitialized"
    ELSE IF sender # owner THEN "NotOwner"
    ELSE "Ok"

\* Variant: extend_lock compares new_unlock with the current time.
extend_lock_check_vs_now(sender, new_unlock) ==
    IF owner = ZERO THEN "NotInitialized"
    ELSE IF sender # owner THEN "NotOwner"
    ELSE IF new_unlock <= timestamp THEN "FundsLocked"
    ELSE "Ok"

\* Variant: extend_lock refuses once the lock has expired.
extend_lock_check_no_relock(sender, new_unlock) ==
    IF owner = ZERO THEN "NotInitialized"
    ELSE IF sender # owner THEN "NotOwner"
    ELSE IF new_unlock <= unlock_timestamp \/ timestamp >= unlock_timestamp
         THEN "FundsLocked"
    ELSE "Ok"

\* extend_lock, lines 109-119
extend_lock_check(sender, new_unlock) ==
    IF owner = ZERO THEN "NotInitialized"
    ELSE IF sender # owner THEN "NotOwner"
    ELSE IF new_unlock <= unlock_timestamp THEN "FundsLocked"
    ELSE "Ok"

\* Variant: the error is reported without reverting the call, so the value
\* attached to it stays with the contract.
Reverted_keeps_value(call) ==
    /\ last' = call
    /\ bal' = Move(bal, call.sender, Self, call.value)
    /\ UNCHANGED <<owner, unlock_timestamp, timestamp, log, inits>>

\* A call that returned Err: the host reverts it, only the return is seen.
Reverted(call) ==
    /\ last' = call
    /\ UNCHANGED <<owner, unlock_timestamp, timestamp, bal, log, inits>>

\* ------------------------------------------------------------- operations
Init ==
    /\ owner = ZERO
    /\ unlock_timestamp = 0
    /\ timestamp = 0
    /\ \E p \in 0..MaxPrefund :
          bal = [a \in Address |->
                    IF a = Self THEN p
                    ELSE IF a = "Alice" THEN InitialFunds ELSE 0]
    /\ log = <<>>
    /\ last = Call("deploy", ZERO, ZERO, 0, 0, "Ok")
    /\ inits = 0

\* Variant: init never stores a timestamp earlier than the current block.
init_clamped(sender, unlock) ==
    LET r == init_check IN
    IF r # "Ok"
    THEN Reverted(Call("init", sender, ZERO, unlock, 0, r))
    ELSE /\ inits < MaxInits
         /\ owner' = sender
         /\ unlock_timestamp' = IF unlock < timestamp THEN timestamp ELSE unlock
         /\ inits' = inits + 1
         /\ last' = Call("init", sender, ZERO, unlock, 0, "Ok")
         /\ UNCHANGED <<timestamp, bal, log>>

\* Variant: init stores the timestamp but not the owner.
init_no_owner(sender, unlock) ==
    LET r == init_check IN
    IF r # "Ok"
    THEN Reverted(Call("init", sender, ZERO, unlock, 0, r))
    ELSE /\ inits < MaxInits
         /\ unlock_timestamp' = unlock
         /\ inits' = inits + 1
         /\ last' = Call("init", sender, ZERO, unlock, 0, "Ok")
         /\ UNCHANGED <<owner, timestamp, bal, log>>

\* pub fn init(&mut self, unlock_timestamp: U256)
init(sender, unlock) ==
    LET r == init_check IN
    IF r # "Ok"
    THEN Reverted(Call("init", sender, ZERO, unlock, 0, r))
    ELSE /\ inits < MaxInits
         /\ owner' = sender
         /\ unlock_timestamp' = unlock
         /\ inits' = inits + 1
         /\ last' = Call("init", sender, ZERO, unlock, 0, "Ok")
         /\ UNCHANGED <<timestamp, bal, log>>

\* Variant: deposit emits no event for a zero amount.
deposit_silent_zero(sender, value) ==
    LET r == deposit_check IN
    /\ value <= bal[sender]
    /\ IF r # "Ok"
       THEN Reverted(Call("deposit", sender, ZERO, 0, value, r))
       ELSE /\ Len(log) < MaxLog
            /\ bal' = Move(bal, sender, Self, value)
            /\ log' = IF value = 0 THEN log ELSE Append(log, Deposit(sender, value))
            /\ last' = Call("deposit", sender, ZERO, 0, value, "Ok")
            /\ UNCHANGED <<owner, unlock_timestamp, timestamp, inits>>

\* Variant: deposit logs the contract's balance instead of msg_value.
deposit_logs_balance(sender, value) ==
    LET r == deposit_check IN
    /\ value <= bal[sender]
    /\ IF r # "Ok"
       THEN Reverted(Call("deposit", sender, ZERO, 0, value, r))
       ELSE /\ Len(log) < MaxLog
            /\ bal' = Move(bal, sender, Self, value)
            /\ log' = Append(log, Deposit(sender, balance + value))
            /\ last' = Call("deposit", sender, ZERO, 0, value, "Ok")
            /\ UNCHANGED <<owner, unlock_timestamp, timestamp, inits>>

\* #[payable] pub fn deposit(&self)
deposit(sender, value) ==
    LET r == deposit_check IN
    /\ value <= bal[sender]
    /\ IF r # "Ok"
       THEN Reverted(Call("deposit", sender, ZERO, 0, value, r))
       ELSE /\ Len(log) < MaxLog
            /\ bal' = Move(bal, sender, Self, value)
            /\ log' = Append(log, Deposit(sender, value))
            /\ last' = Call("deposit", sender, ZERO, 0, value, "Ok")
            /\ UNCHANGED <<owner, unlock_timestamp, timestamp, inits>>

\* Variant: withdraw sends one unit instead of the whole balance.
withdraw_partial(sender, to, accepted) ==
    LET r == withdraw_check(sender) IN
    /\ CanAccept(to, accepted)
    /\ IF r # "Ok"
       THEN Reverted(Call("withdraw", sender, to, 0, 0, r))
       ELSE IF ~accepted
       THEN Reverted(Call("withdraw", sender, to, 0, 0, "TransferFailed"))
       ELSE /\ Len(log) < MaxLog
            /\ bal' = Move(bal, Self, to, 1)
            /\ log' = Append(log, Withdrawal(to, balance))
            /\ last' = Call("withdraw", sender, to, 0, 0, "Ok")
            /\ UNCHANGED <<owner, unlock_timestamp, timestamp, inits>>

\* Variant: withdraw ignores the result of the transfer.
withdraw_ignore_failure(sender, to, accepted) ==
    LET r == withdraw_check(sender) IN
    /\ CanAccept(to, accepted)
    /\ IF r # "Ok"
       THEN Reverted(Call("withdraw", sender, to, 0, 0, r))
       ELSE /\ Len(log) < MaxLog
            /\ bal' = IF accepted THEN Move(bal, Self, to, balance) ELSE bal
            /\ log' = Append(log, Withdrawal(to, balance))
            /\ last' = Call("withdraw", sender, to, 0, 0, "Ok")
            /\ UNCHANGED <<owner, unlock_timestamp, timestamp, inits>>

\* Variant: a successful withdraw also clears the unlock time.
withdraw_clears_lock(sender, to, accepted) ==
    LET r == withdraw_check(sender) IN
    /\ CanAccept(to, accepted)
    /\ IF r # "Ok"
       THEN Reverted(Call("withdraw", sender, to, 0, 0, r))
       ELSE IF ~accepted
       THEN Reverted(Call("withdraw", sender, to, 0, 0, "TransferFailed"))
       ELSE /\ Len(log) < MaxLog
            /\ bal' = Move(bal, Self, to, balance)
            /\ log' = Append(log, Withdrawal(to, balance))
            /\ unlock_timestamp' = 0
            /\ last' = Call("withdraw", sender, to, 0, 0, "Ok")
            /\ UNCHANGED <<owner, timestamp, inits>>

\* pub fn withdraw(&mut self, to: Address)
withdraw(sender, to, accepted) ==
    LET r == withdraw_check(sender) IN
    /\ CanAccept(to, accepted)
    /\ IF r # "Ok"
       THEN Reverted(Call("withdraw", sender, to, 0, 0, r))
       ELSE IF ~accepted
       THEN Reverted(Call("withdraw", sender, to, 0, 0, "TransferFailed"))
       ELSE /\ Len(log) < MaxLog
            /\ bal' = Move(bal, Self, to, balance)
            /\ log' = Append(log, Withdrawal(to, balance))
            /\ last' = Call("withdraw", sender, to, 0, 0, "Ok")
            /\ UNCHANGED <<owner, unlock_timestamp, timestamp, inits>>

\* pub fn extend_lock(&mut self, new_unlock: U256)
extend_lock(sender, new_unlock) ==
    LET r == extend_lock_check(sender, new_unlock) IN
    IF r # "Ok"
    THEN Reverted(Call("extend_lock", sender, ZERO, new_unlock, 0, r))
    ELSE /\ unlock_timestamp' = new_unlock
         /\ last' = Call("extend_lock", sender, ZERO, new_unlock, 0, "Ok")
         /\ UNCHANGED <<owner, timestamp, bal, log, inits>>

\* pub fn owner(&self) -> Address
owner_get ==
    /\ last' = [Call("owner", ZERO, ZERO, 0, 0, "Ok") EXCEPT !.ret_addr = owner]
    /\ UNCHANGED <<owner, unlock_timestamp, timestamp, bal, log, inits>>

\* pub fn unlock_time(&self) -> U256
unlock_time ==
    /\ last' = [Call("unlock_time", ZERO, ZERO, 0, 0, "Ok")
                   EXCEPT !.ret_u256 = unlock_timestamp]
    /\ UNCHANGED <<owner, unlock_timestamp, timestamp, bal, log, inits>>

\* The host's clock: a later block has a later timestamp.
Tick ==
    /\ timestamp < TimestampMax
    /\ timestamp' = timestamp + 1
    /\ last' = Call("tick", ZERO, ZERO, 0, 0, "Ok")
    /\ UNCHANGED <<owner, unlock_timestamp, bal, log, inits>>

Next ==
    \/ \E s \in Senders, t \in U256 : init(s, t)
    \/ \E s \in Senders, v \in 0..InitialFunds : deposit(s, v)
    \/ \E s \in Senders, to \in Recipients, ok \in BOOLEAN : withdraw(s, to, ok)
    \/ \E s \in Senders, t \in U256 : extend_lock(s, t)
    \/ owner_get
    \/ unlock_time
    \/ Tick

Spec == Init /\ [][Next]_vars

TypeOK ==
    /\ owner \in Address
    /\ unlock_timestamp \in U256
    /\ timestamp \in 0..TimestampMax
    /\ bal \in [Address -> Nat]
    /\ Len(log) <= MaxLog
    /\ inits \in 0..MaxInits

\* ============================================================ properties
\* The step just taken is a call of op (last' describes the step).
Called(op) == last'.op = op
\* The step just taken returned result.
Returned(result) == last'.result = result
\* The step left the wallet, the ledger and the event log as they were.
NothingChanged == UNCHANGED <<owner, unlock_timestamp, bal, log>>

\* C1: the pool balance decreases only in a step that is a withdraw returning
\* Ok, sent by the stored owner at a time >= unlock_timestamp; a withdraw by
\* the owner at a time < unlock_timestamp returns FundsLocked and leaves the
\* pool balance unchanged.
C1_ReleaseOnlyAfterUnlock ==
    [][ /\ bal'[Self] < bal[Self] =>
              /\ Called("withdraw") /\ Returned("Ok")
              /\ owner # ZERO /\ last'.sender = owner
              /\ timestamp >= unlock_timestamp
        /\ (Called("withdraw") /\ owner # ZERO /\ last'.sender = owner
                /\ timestamp < unlock_timestamp) =>
              /\ Returned("FundsLocked")
              /\ bal'[Self] = bal[Self] ]_vars

\* C1 witness: the owner's withdraw was refused as locked while the pool
\* holds value.
C1_Witness ==
    /\ last.op = "withdraw" /\ last.result = "FundsLocked"
    /\ last.sender = owner /\ timestamp < unlock_timestamp /\ balance > 0

\* C2: at most one init call returns Ok, and every init call made after one
\* returned Ok fails with AlreadyInitialized and leaves owner and
\* unlock_timestamp unchanged.
C2_InitOnce ==
    [][ /\ inits' <= 1
        /\ (Called("init") /\ inits >= 1) =>
              /\ Returned("AlreadyInitialized")
              /\ UNCHANGED <<owner, unlock_timestamp, inits>> ]_vars

\* C2 witness: a second init was refused.
C2_Witness ==
    inits = 1 /\ last.op = "init" /\ last.result = "AlreadyInitialized"

\* C3: right after init(T) by C returned Ok, the storage holds owner = C and
\* unlock_timestamp = T, and owner() / unlock_time() called next return C / T,
\* for every T in U256.
C3_InitStores ==
    [][ (last.op = "init" /\ last.result = "Ok") =>
            /\ owner = last.sender
            /\ unlock_timestamp = last.arg
            /\ Called("owner") => last'.ret_addr = last.sender
            /\ Called("unlock_time") => last'.ret_u256 = last.arg ]_vars

\* C3 witness: an init with an unlock time earlier than the current time
\* was accepted.
C3_Witness ==
    last.op = "init" /\ last.result = "Ok" /\ last.arg < timestamp

\* C4: while owner = ZERO, deposit, withdraw and extend_lock return
\* NotInitialized and change nothing; owner() returns ZERO and unlock_time()
\* returns 0.
C4_UninitializedRejects ==
    [][ owner = ZERO =>
            /\ (Called("deposit") \/ Called("withdraw") \/ Called("extend_lock"))
                  => (Returned("NotInitialized") /\ NothingChanged)
            /\ Called("owner") => (Returned("Ok") /\ last'.ret_addr = ZERO)
            /\ Called("unlock_time") => (Returned("Ok") /\ last'.ret_u256 = 0) ]_vars

\* C4 witness: a deposit carrying value was refused on an uninitialised
\* wallet whose account already holds value.
C4_Witness ==
    /\ owner = ZERO /\ last.op = "deposit" /\ last.value > 0
    /\ last.result = "NotInitialized" /\ balance > 0 /\ timestamp > 0

\* C5 as stated: withdraw by any identity other than owner() returns NotOwner
\* and leaves the pool balance unchanged.
C5_Original ==
    [][ (Called("withdraw") /\ last'.sender # owner) =>
            (Returned("NotOwner") /\ bal'[Self] = bal[Self]) ]_vars

\* C5 amended: on an initialised wallet, withdraw by any identity other than
\* owner() returns NotOwner, at any time and pool balance, and leaves the
\* pool balance unchanged.
C5_NotOwner ==
    [][ (Called("withdraw") /\ owner # ZERO /\ last'.sender # owner) =>
            (Returned("NotOwner") /\ bal'[Self] = bal[Self]) ]_vars

\* C5 witness: a non-owner's withdraw was refused although the lock has
\* expired and the pool holds value.
C5_Witness ==
    /\ last.op = "withdraw" /\ last.result = "NotOwner"
    /\ owner # ZERO /\ last.sender # owner
    /\ timestamp >= unlock_timestamp /\ balance > 0

\* The owner calls withdraw at a time >= unlock_timestamp with balance > 0.
WithdrawDue ==
    /\ Called("withdraw") /\ owner # ZERO /\ last'.sender = owner
    /\ timestamp >= unlock_timestamp /\ balance > 0

\* Exactly the whole balance moved to the recipient and one Withdrawal logged.
WithdrawEffect ==
    /\ bal' = Move(bal, Self, last'.to, balance)
    /\ log' = Append(log, Withdrawal(last'.to, balance))

\* C6 as stated: such a withdraw returns Ok for every recipient, moves the
\* whole balance B to it, emits one Withdrawal(to, B) and leaves the pool 0.
C6_Original ==
    [][ WithdrawDue =>
            (Returned("Ok") /\ WithdrawEffect /\ bal'[Self] = 0) ]_vars

\* C6 amended: such a withdraw returns Ok exactly when the host accepts the
\* transfer, which it never does for the wallet's own account; on Ok the
\* whole balance B went to the recipient, exactly one Withdrawal(to, B) was
\* appended and the pool is 0; otherwise it fails and nothing changed.
C6_WithdrawAll ==
    [][ WithdrawDue =>
            /\ Returned("Ok") \/ Returned("TransferFailed")
            /\ last'.to = Self => Returned("TransferFailed")
            /\ Returned("Ok") =>
                  /\ WithdrawEffect
                  /\ bal'[Self] = 0
                  /\ bal'[last'.to] = bal[last'.to] + balance
            /\ Returned("TransferFailed") => NothingChanged ]_vars

\* C6 witness: a withdraw drained a pool of more than one unit to a recipient
\* that is not the owner.
C6_Witness ==
    /\ last.op = "withdraw" /\ last.result = "Ok" /\ last.to # owner
    /\ balance = 0 /\ bal[last.to] > 1
    /\ log # <<>> /\ log[Len(log)] = Withdrawal(last.to, bal[last.to])

\* C7: extend_lock(new_unlock) returns Ok iff sender = owner() and
\* new_unlock > unlock_time(), in every state (the uninitialised one too);
\* on Ok unlock_timestamp is new_unlock.
C7_ExtendIff ==
    [][ Called("extend_lock") =>
            /\ Returned("Ok") <=>
                  (last'.sender = owner /\ last'.arg > unlock_timestamp)
            /\ Returned("Ok") => unlock_timestamp' = last'.arg ]_vars

\* C7 witness: an extension was accepted.
C7_Witness ==
    /\ last.op = "extend_lock" /\ last.result = "Ok"
    /\ last.sender = owner /\ unlock_timestamp = last.arg

\* C8: no step makes unlock_timestamp smaller, and a step that changes it
\* on an initialised wallet makes it strictly larger.
C8_UnlockMonotone ==
    [][ /\ unlock_timestamp' >= unlock_timestamp
        /\ (owner # ZERO /\ unlock_timestamp' # unlock_timestamp) =>
              unlock_timestamp' > unlock_timestamp ]_vars

\* C8 witness: the owner's attempt to move the unlock time earlier was
\* refused.
C8_Witness ==
    /\ last.op = "extend_lock" /\ last.result = "FundsLocked"
    /\ last.sender = owner /\ last.arg < unlock_timestamp

\* C9: once owner # ZERO, no step changes owner.
C9_OwnerFixed ==
    [][ owner # ZERO => owner' = owner ]_vars

\* C9 witness: someone other than the owner called init on an initialised
\* wallet whose unlock time is 0.
C9_Witness ==
    /\ owner # ZERO /\ last.op = "init" /\ last.sender # owner
    /\ unlock_timestamp = 0

\* C10: owner = ZERO exactly when no init call has returned Ok so far.
C10_ZeroIffNeverInitialized ==
    (owner = ZERO) <=> (inits = 0)

\* C10 witness: an init call has returned Ok.
C10_Witness ==
    inits = 1 /\ owner \in Senders /\ last.op # "init"

\* C11: on an initialised wallet a deposit of any amount A >= 0 by any sender,
\* at any time, returns Ok, raises the pool balance by exactly A and appends
\* exactly one Deposit(sender, A), also when A = 0.
C11_DepositAlways ==
    [][ (Called("deposit") /\ owner # ZERO) =>
            /\ Returned("Ok")
            /\ bal'[Self] = bal[Self] + last'.value
            /\ bal'[last'.sender] = bal[last'.sender] - last'.value
            /\ log' = Append(log, Deposit(last'.sender, last'.value)) ]_vars

\* C11 witness: a sender who is not the owner deposited 0 while the funds
\* are unlockable, and the Deposit with amount 0 is the last event.
C11_Witness ==
    /\ last.op = "deposit" /\ last.result = "Ok" /\ last.value = 0
    /\ owner # ZERO /\ last.sender # owner /\ timestamp >= unlock_timestamp
    /\ log # <<>> /\ log[Len(log)] = Deposit(last.sender, 0)

\* The five error tags of the contract.
Errors ==
    {"NotOwner", "FundsLocked", "ZeroBalance", "AlreadyInitialized",
     "NotInitialized"}

\* C12: a call that returns one of the five errors leaves owner,
\* unlock_timestamp, every balance (the value attached to a failed deposit
\* stays with its sender) and the event log as they were.
C12_ErrorsChangeNothing ==
    [][ last'.result \in Errors => (NothingChanged /\ inits' = inits) ]_vars

\* C12 witness: a withdraw failed with ZeroBalance after a deposit and a
\* withdrawal had been logged; the log is still those two events.
C12_Witness ==
    /\ last.op = "withdraw" /\ last.result = "ZeroBalance"
    /\ Len(log) = 2 /\ log[1].event = "Deposit" /\ log[2].event = "Withdrawal"
    /\ bal["Alice"] < InitialFunds

\* C13: a withdraw whose transfer the host rejects fails and changes nothing,
\* and a step appends a Withdrawal(to, B) only when it is a withdraw that
\* returned Ok and moved B from the contract to `to`.
C13_TransferRejected ==
    [][ /\ (Called("withdraw") /\ Returned("TransferFailed")) => NothingChanged
        /\ (log' # log /\ log'[Len(log')].event = "Withdrawal") =>
              /\ Called("withdraw") /\ Returned("Ok")
              /\ log' = Append(log, Withdrawal(last'.to, balance))
              /\ bal' = Move(bal, Self, last'.to, balance)
              /\ bal'[Self] = 0 ]_vars

\* C13 witness: the owner's due withdraw failed because the transfer was
\* rejected; the pool still holds the deposited value and only the Deposit
\* is logged.
C13_Witness ==
    /\ last.op = "withdraw" /\ last.result = "TransferFailed"
    /\ last.to # Self /\ balance > 0
    /\ Len(log) = 1 /\ log[1].event = "Deposit"

\* ------------------------------------------------- the scenario of the spec
\* The same operations with the values of the concrete scenario: the block
\* timestamps 500, 800, 2100, 2200, the unlock times 1000 and 2000, the
\* amount 50 held by Bob, and Carol an account that accepts transfers.
ScenarioTimes == {500, 800, 2100, 2200}
ScenarioUnlocks == {1000, 2000}
ScenarioAmounts == {0, 50}

ScenarioInit ==
    /\ owner = ZERO
    /\ unlock_timestamp = 0
    /\ timestamp = 500
    /\ bal = [a \in Address |-> IF a = "Bob" THEN 50 ELSE 0]
    /\ log = <<>>
    /\ last = Call("deploy", ZERO, ZERO, 0, 0, "Ok")
    /\ inits = 0

\* The host's clock moves to a later one of the scenario's timestamps.
ScenarioTick ==
    /\ \E t \in ScenarioTimes : t > timestamp /\ timestamp' = t
    /\ last' = Call("tick", ZERO, ZERO, 0, 0, "Ok")
    /\ UNCHANGED <<owner, unlock_timestamp, bal, log, inits>>

ScenarioNext ==
    \/ \E s \in Senders, t \in ScenarioUnlocks : init(s, t)
    \/ \E s \in Senders, v \in ScenarioAmounts : deposit(s, v)
    \/ \E s \in Senders, to \in Recipients : withdraw(s, to, to = "Carol")
    \/ \E s \in Senders, t \in ScenarioUnlocks : extend_lock(s, t)
    \/ owner_get
    \/ unlock_time
    \/ ScenarioTick

SpecScenario == ScenarioInit /\ [][ScenarioNext]_vars

\* The wallet as the scenario has it after init: owner Alice, the given
\* unlock time, the given log and pool balance.
ScenarioState(unlock, events, pool) ==
    /\ owner = "Alice" /\ unlock_timestamp = unlock
    /\ log = events /\ balance = pool

\* Alice calls withdraw(Carol) in this step.
AliceWithdrawsToCarol ==
    Called("withdraw") /\ last'.sender = "Alice" /\ last'.to = "Carol"

\* C14: the scenario, step by step, each step taken from the state the
\* steps before it leave: init(1000) by Alice at 500; deposit of 50 by Bob;
\* withdraw(Carol) by Alice at 800 fails FundsLocked; extend_lock(2000) by
\* Alice; withdraw(Carol) by Alice at 2100 pays 50 to Carol; withdraw(Carol)
\* by Alice at 2200 fails ZeroBalance.
C14_Scenario ==
    [][ /\ (owner = ZERO /\ timestamp = 500 /\ log = <<>> /\ balance = 0
              /\ Called("init") /\ last'.sender = "Alice" /\ last'.arg = 1000) =>
              /\ Returned("Ok")
              /\ owner' = "Alice" /\ unlock_timestamp' = 1000
        /\ (ScenarioState(1000, <<>>, 0)
              /\ Called("deposit") /\ last'.sender = "Bob" /\ last'.value = 50) =>
              /\ Returned("Ok")
              /\ bal'[Self] = 50
              /\ log' = <<Deposit("Bob", 50)>>
        /\ (ScenarioState(1000, <<Deposit("Bob", 50)>>, 50) /\ timestamp = 800
              /\ AliceWithdrawsToCarol) =>
              /\ Returned("FundsLocked")
              /\ bal'[Self] = 50
        /\ (ScenarioState(1000, <<Deposit("Bob", 50)>>, 50)
              /\ Called("extend_lock") /\ last'.sender = "Alice"
              /\ last'.arg = 2000) =>
              /\ Returned("Ok")
              /\ unlock_timestamp' = 2000
        /\ (ScenarioState(2000, <<Deposit("Bob", 50)>>, 50) /\ timestamp = 2100
              /\ AliceWithdrawsToCarol) =>
              /\ Returned("Ok")
              /\ bal'["Carol"] = bal["Carol"] + 50
              /\ log' = <<Deposit("Bob", 50), Withdrawal("Carol", 50)>>
              /\ bal'[Self] = 0
        /\ (ScenarioState(2000, <<Deposit("Bob", 50), Withdrawal("Carol", 50)>>, 0)
              /\ timestamp = 2200 /\ AliceWithdrawsToCarol) =>
              Returned("ZeroBalance") ]_vars

\* C14 witness: the end of the scenario, the second withdraw refused at 2200
\* with Carol holding the 50.
C14_Witness ==
    /\ ScenarioState(2000, <<Deposit("Bob", 50), Withdrawal("Carol", 50)>>, 0)
    /\ timestamp = 2200 /\ bal["Carol"] = 50 /\ bal["Bob"] = 0
    /\ last.op = "withdraw" /\ last.sender = "Alice" /\ last.to = "Carol"
    /\ last.result = "ZeroBalance"

\* C15: withdraw returns the error of the first violated precondition in the
\* order initialised, sender = owner, time >= unlock_timestamp, balance > 0;
\* ZeroBalance is returned only to the owner of an initialised wallet at a
\* time >= unlock_timestamp with balance 0.
C15_WithdrawCheckOrder ==
    [][ Called("withdraw") =>
            /\ owner = ZERO => Returned("NotInitialized")
            /\ (owner # ZERO /\ last'.sender # owner) => Returned("NotOwner")
            /\ (owner # ZERO /\ last'.sender = owner
                  /\ timestamp < unlock_timestamp) => Returned("FundsLocked")
            /\ (owner # ZERO /\ last'.sender = owner
                  /\ timestamp >= unlock_timestamp /\ balance = 0)
                  => Returned("ZeroBalance")
            /\ Returned("ZeroBalance") =>
                  /\ owner # ZERO /\ last'.sender = owner
                  /\ timestamp >= unlock_timestamp /\ balance = 0 ]_vars

\* C15 witness: a withdraw that violates the owner, time and balance
\* preconditions at once was answered with NotOwner.
C15_Witness ==
    /\ last.op = "withdraw" /\ last.result = "NotOwner"
    /\ owner # ZERO /\ timestamp < unlock_timestamp /\ balance = 0

\* C16: extend_lock by the owner of an initialised wallet with
\* new_unlock <= unlock_timestamp returns FundsLocked and leaves
\* unlock_timestamp unchanged, whatever the time and the balance; a sender
\* who is not the owner gets NotOwner also when new_unlock <= unlock_timestamp.
C16_ExtendRejected ==
    [][ (Called("extend_lock") /\ owner # ZERO
            /\ last'.arg <= unlock_timestamp) =>
            /\ last'.sender = owner =>
                  (Returned("FundsLocked") /\ unlock_timestamp' = unlock_timestamp)
            /\ last'.sender # owner =>
                  (Returned("NotOwner") /\ unlock_timestamp' = unlock_timestamp) ]_vars

\* C16 witness: the owner asked for the unlock time already stored, which
\* lies in the future, while the pool holds value, and got FundsLocked.
C16_Witness ==
    /\ last.op = "extend_lock" /\ last.result = "FundsLocked"
    /\ last.sender = owner /\ last.arg = unlock_timestamp
    /\ timestamp < unlock_timestamp /\ balance > 0

\* Initialised and not yet unlockable / unlockable, recomputed from the
\* block timestamp as withdraw does (line 89).
Locked == owner # ZERO /\ timestamp < unlock_timestamp
Unlockable == owner # ZERO /\ ~(timestamp < unlock_timestamp)

\* The owner has an extend_lock call that succeeds and locks the wallet again.
CanRelock ==
    \E t \in U256 : t > timestamp /\ extend_lock_check(owner, t) = "Ok"

\* Some block timestamp from now on is not below unlock_timestamp.
TimeCanReachUnlock ==
    \E t \in timestamp..TimestampMax : ~(t < unlock_timestamp)

\* Some call still returns Ok: a deposit of 0 is open to every sender.
SomeCallSucceeds ==
    \E s \in Senders : deposit_check = "Ok" /\ 0 <= bal[s]

\* C17 as stated: from every Unlockable state the owner can lock again with
\* an extend_lock beyond the current time, from every Locked state the
\* advance of time reaches an Unlockable state, and in every initialised
\* state some call can succeed.
C17_Original ==
    /\ Unlockable => CanRelock
    /\ Locked => TimeCanReachUnlock
    /\ owner # ZERO => SomeCallSucceeds

\* C17 amended: as stated, except that the advance of time reaches an
\* Unlockable state only from the Locked states whose unlock_timestamp is at
\* most the largest block timestamp; there the clock can still advance, and
\* it leaves owner and unlock_timestamp alone. A Locked state with a larger
\* unlock_timestamp is never left by the advance of time.
C17_Cycle ==
    [][ /\ Unlockable => CanRelock
        /\ (Locked /\ unlock_timestamp <= TimestampMax) =>
              (TimeCanReachUnlock /\ ENABLED Tick)
        /\ (Locked /\ unlock_timestamp > TimestampMax) => ~TimeCanReachUnlock
        /\ (Locked /\ Called("tick")) =>
              /\ timestamp' = timestamp + 1
              /\ UNCHANGED <<owner, unlock_timestamp>>
        /\ owner # ZERO => SomeCallSucceeds ]_vars

\* C17 witness: the wallet was unlockable (a withdrawal went through), the
\* owner then extended the lock, and it is Locked again with an unlock time
\* the clock can reach.
C17_Witness ==
    /\ Locked /\ unlock_timestamp <= TimestampMax
    /\ last.op = "extend_lock" /\ last.result = "Ok"
    /\ \E i \in 1..Len(log) : log[i].event = "Withdrawal"

\* C18: frame conditions of the calls that return Ok: deposit and withdraw
\* leave owner and unlock_timestamp; extend_lock leaves owner and every
\* balance and logs nothing; init leaves every balance and logs nothing;
\* owner() and unlock_time() change nothing.
C18_Frames ==
    [][ Returned("Ok") =>
            /\ (Called("deposit") \/ Called("withdraw")) =>
                  UNCHANGED <<owner, unlock_timestamp>>
            /\ Called("extend_lock") => UNCHANGED <<owner, bal, log>>
            /\ Called("init") => UNCHANGED <<bal, log>>
            /\ (Called("owner") \/ Called("unlock_time")) => NothingChanged ]_vars

\* C18 witness: a withdraw went through on a wallet whose unlock time is
\* not 0, and the unlock time is still there.
C18_Witness ==
    /\ last.op = "withdraw" /\ last.result = "Ok"
    /\ unlock_timestamp > 0 /\ owner # ZERO /\ log # <<>>

\* The pool starts empty: nothing was sent to the address before deployment.
InitEmptyPool == Init /\ balance = 0

SpecEmptyPool == InitEmptyPool /\ [][Next]_vars

\* Sum of the amounts of the events of one kind among the first n events.
RECURSIVE SumOf(_, _)
SumOf(kind, n) ==
    IF n = 0 THEN 0
    ELSE SumOf(kind, n - 1) + (IF log[n].event = kind THEN log[n].amount ELSE 0)

\* Deposits minus withdrawals of the first n events.
PoolAfter(n) == SumOf("Deposit", n) - SumOf("Withdrawal", n)

\* C19: starting from an empty pool, the pool balance is the sum of the
\* logged Deposit amounts minus the sum of the logged Withdrawal amounts, and
\* every Withdrawal carries a positive amount equal to the whole pool just
\* before it.
C19_PoolIsLogSum ==
    /\ balance = PoolAfter(Len(log))
    /\ \A i \in 1..Len(log) :
          log[i].event = "Withdrawal" =>
              (log[i].amount > 0 /\ log[i].amount = PoolAfter(i - 1))

\* C19 witness: a deposit of value followed by the withdrawal of it.
C19_Witness ==
    /\ Len(log) = 2 /\ log[1].event = "Deposit" /\ log[1].amount > 0
    /\ log[2].event = "Withdrawal" /\ log[2].amount = log[1].amount
    /\ balance = 0

\* C20: once unlock_timestamp exceeds the largest block timestamp it stays
\* above it, no withdraw returns Ok and the pool balance never decreases.
C20_LockedForever ==
    [][ unlock_timestamp > TimestampMax =>
            /\ unlock_timestamp' > TimestampMax
            /\ ~(Called("withdraw") /\ Returned("Ok"))
            /\ bal'[Self] >= bal[Self] ]_vars

\* C20 witness: at the largest block timestamp the owner's withdraw of a
\* funded pool is refused as locked, the unlock time lying beyond every
\* timestamp.
C20_Witness ==
    /\ unlock_timestamp > TimestampMax /\ timestamp = TimestampMax
    /\ last.op = "withdraw" /\ last.result = "FundsLocked"
    /\ last.sender = owner /\ balance > 0
====
